---- MODULE Spec2Model ----
(***************************************************************************)
(* PairAdmin bridge for PuTTY: the callback slot (pairadmin.c), the two    *)
(* interception points term_data_hook / ldisc_send_hook at their call      *)
(* sites in terminal.c / ldisc.c, and the window handle registry           *)
(* (hwnd_terminal, putty_get_terminal_hwnd) with the embedding process     *)
(* that uses it.                                                           *)
(*                                                                         *)
(* Two threads touch the callback slot: the engine thread, which runs the  *)
(* hooks inline with term_data / ldisc_send, and the observer thread,      *)
(* which calls pairadmin_set_callback.  The slot is a plain global with no *)
(* lock and no atomic access, so a hook's "if (pairadmin_callback)" and    *)
(* its "pairadmin_callback(...)" are two reads that the build may or may   *)
(* not fold into one.                                                      *)
(***************************************************************************)
EXTENDS Integers, Sequences, FiniteSets, TLC

\* ---------------------------------------------------------------- bounds
MaxEvents == 2      \* events the engine handles in one run
MaxSets == 2        \* calls of pairadmin_set_callback in one run
MaxQueries == 3     \* calls of putty_get_terminal_hwnd in one run
MaxFrameEvents == 1 \* events in a run of the whole bridge
MaxFrameSets == 1   \* set_callback calls in a run of the whole bridge
MaxOps == 3         \* native window operations the embedder issues

\* ------------------------------------------------------------- constants
NULL == 0
PAIRADMIN_EVENT_OUTPUT == 1
PAIRADMIN_EVENT_INPUT == 2

\* The handlers an observer may install (function addresses).
Handlers == {1, 2}
PairAdminCallback == Handlers \cup {NULL}

\* The byte buffers the engine hands to term_data / ldisc_send.
Chunks == {<<>>, <<8, 7>>}

\* Native handles a terminal window may be given at creation.
WindowHandles == {1, 2}
HWND == WindowHandles \cup {NULL}

\* The native operations of the embedding process.
NativeOps == {"SetParent", "SetWindowPos", "SetFocus"}

\* The container windows of the embedding application, and "no container".
Containers == {"A", "B"}
NoContainer == "none"

\* Window rectangles; the surface starts with a rectangle of its own.
ContainerBounds == {1, 2}
OwnBounds == 0

VARIABLES
    pairadmin_callback, \* the process-wide callback slot
    pc,                 \* the engine thread's position in its data path
    seen,               \* the slot value the running hook's check loaded
    processed,          \* the events the engine has taken up, in its order
    rendered,           \* what term_data has queued for rendering
    transmitted,        \* what ldisc_send has handed to the SSH channel
    delivered,          \* the handler invocations, in call order
    regHist,            \* the arguments of the returned set_callback calls
    hwnd_terminal,      \* window.c's handle variable
    windowState,        \* "none", "alive" or "destroyed"
    windowHandle,       \* the native handle the window was created with
    hwnd,               \* the embedder's copy of the last query result
    queries,            \* the results of putty_get_terminal_hwnd, in order
    nativeOps,          \* the native operations issued, in order
    hostedBy,           \* the containers that hold the surface as a child
    surfaceBounds,      \* the surface's rectangle
    focus,              \* the keyboard focus owner: "host" or "surface"
    containerBounds     \* each container's current rectangle

chanVars == <<pairadmin_callback, pc, seen, processed, rendered, transmitted,
              delivered, regHist>>
embVars == <<hostedBy, surfaceBounds, focus, containerBounds>>
winVars == <<hwnd_terminal, windowState, windowHandle, hwnd, queries, nativeOps,
             hostedBy, surfaceBounds, focus, containerBounds>>
vars == <<pairadmin_callback, pc, seen, processed, rendered, transmitted,
          delivered, regHist, hwnd_terminal, windowState, windowHandle, hwnd,
          queries, nativeOps, hostedBy, surfaceBounds, focus, containerBounds>>

\* Number of set_callback calls that have returned so far.
epoch == Len(regHist)

\* The slot's value after the e-th set_callback call (NULL before the first).
RegAt(e) == IF e = 0 THEN NULL ELSE regHist[e]

\* Index of the event the engine is working on.
cur == Len(processed)

Init ==
    /\ pairadmin_callback = NULL
    /\ pc = "idle"
    /\ seen = NULL
    /\ processed = <<>>
    /\ rendered = <<>>
    /\ transmitted = <<>>
    /\ delivered = <<>>
    /\ regHist = <<>>
    /\ hwnd_terminal = NULL
    /\ windowState = "none"
    /\ windowHandle = NULL
    /\ hwnd = NULL
    /\ queries = <<>>
    /\ nativeOps = <<>>
    /\ hostedBy = {}
    /\ surfaceBounds = OwnBounds
    /\ focus = "host"
    /\ containerBounds = [c \in Containers |-> 1]

\* ------------------------------------------------------------ pairadmin.c

\* A set_callback that only fills an empty slot and never replaces.
pairadmin_set_callback_keepFirst(callback) ==
    /\ pairadmin_callback' = IF pairadmin_callback = NULL THEN callback
                                                          ELSE pairadmin_callback
    /\ regHist' = Append(regHist, callback)

\* void pairadmin_set_callback(PairAdminCallback callback): one plain store.
pairadmin_set_callback(callback) ==
    /\ pairadmin_callback' = callback
    /\ regHist' = Append(regHist, callback)

\* The observer thread registers, replaces or clears the handler.
SetCallback(callback) ==
    /\ epoch < MaxSets
    /\ pairadmin_set_callback(callback)
    /\ UNCHANGED <<pc, seen, processed, rendered, transmitted, delivered>>
    /\ UNCHANGED winVars

\* ------------------------------------------------- the engine's bookkeeping

\* The record of an event the engine takes up at one of the two call sites.
NewEvent(point, data) ==
    [point |-> point, data |-> data, len |-> Len(data),
     ep0 |-> epoch, saw |-> -1, ckEp |-> -1, ep1 |-> -1]

\* The hook's check loaded v from the slot.
Checked(v) == [processed EXCEPT ![cur].saw = v, ![cur].ckEp = epoch]

\* The engine is through with the current event after e set_callback calls.
Completed(evs, e) == [evs EXCEPT ![cur].ep1 = e]

\* What the handler target gets when a hook calls it with (event, data, len).
Notification(target, event, data, len, ok) ==
    [h |-> target, kind |-> event, data |-> data, len |-> len, idx |-> cur,
     ok |-> ok, slotAt |-> pairadmin_callback,
     ckEp |-> processed[cur].ckEp, ep |-> epoch]

\* A hook that saves the slot before the call and restores it afterwards:
\* a set_callback made by the handler itself is lost.
HandlerRuns_restoresSlot(target, event, data, len, ok, act) ==
    /\ delivered' = Append(delivered, [act |-> act] @@
                                      Notification(target, event, data, len, ok))
    /\ IF act = -1
          THEN UNCHANGED <<pairadmin_callback, regHist>>
          ELSE /\ epoch < MaxSets
               /\ regHist' = Append(regHist, act)
               /\ UNCHANGED pairadmin_callback

\* The handler runs: it sees the event, succeeds or fails on its own side,
\* returns nothing, and may itself call pairadmin_set_callback (act # -1).
HandlerRuns(target, event, data, len, ok, act) ==
    /\ delivered' = Append(delivered, [act |-> act] @@
                                      Notification(target, event, data, len, ok))
    /\ IF act = -1
          THEN UNCHANGED <<pairadmin_callback, regHist>>
          ELSE epoch < MaxSets /\ pairadmin_set_callback(act)

\* The epoch after a handler that did (or did not) call set_callback.
EpochAfter(act) == IF act = -1 THEN epoch ELSE epoch + 1

\* ------------------------------------------------------------- terminal.c

\* The output hook placed in front of term_data: nothing is queued for
\* rendering when the hook is entered.
term_data_site_hookFirst(data) ==
    /\ pc = "idle"
    /\ cur < MaxEvents
    /\ processed' = Append(processed, NewEvent("output", data))
    /\ pc' = "out_check"
    /\ UNCHANGED <<pairadmin_callback, seen, rendered, transmitted, delivered, regHist>>
    /\ UNCHANGED winVars

\* The modified call site: term_data(term, data, len) runs to the end, then
\* term_data_hook(term, data, len) is entered.
term_data_site(data) ==
    /\ pc = "idle"
    /\ cur < MaxEvents
    /\ rendered' = Append(rendered, [data |-> data, len |-> Len(data), idx |-> cur + 1])
    /\ processed' = Append(processed, NewEvent("output", data))
    /\ pc' = "out_check"
    /\ UNCHANGED <<pairadmin_callback, seen, transmitted, delivered, regHist>>
    /\ UNCHANGED winVars

\* An output hook without the NULL check.
term_data_hook_check_noGuard ==
    /\ pc = "out_check"
    /\ seen' = pairadmin_callback
    /\ pc' = "out_call"
    /\ processed' = Checked(pairadmin_callback)
    /\ UNCHANGED <<pairadmin_callback, rendered, transmitted, delivered, regHist>>
    /\ UNCHANGED winVars

\* term_data_hook: if (pairadmin_callback)
term_data_hook_check ==
    /\ pc = "out_check"
    /\ seen' = pairadmin_callback
    /\ IF pairadmin_callback # NULL
          THEN pc' = "out_call" /\ processed' = Checked(pairadmin_callback)
          ELSE pc' = "idle" /\ processed' = Completed(Checked(NULL), epoch)
    /\ UNCHANGED <<pairadmin_callback, rendered, transmitted, delivered, regHist>>
    /\ UNCHANGED winVars

\* An output hook pasted from the input hook: it reports PAIRADMIN_EVENT_INPUT.
term_data_hook_call_wrongKind ==
    /\ pc = "out_call"
    /\ \E target \in {seen, pairadmin_callback} :
          IF target = NULL
             THEN /\ pc' = "crashed"
                  /\ UNCHANGED <<pairadmin_callback, processed, delivered, regHist>>
             ELSE \E ok \in BOOLEAN, act \in PairAdminCallback \cup {-1} :
                  /\ HandlerRuns(target, PAIRADMIN_EVENT_INPUT,
                                 processed[cur].data, processed[cur].len, ok, act)
                  /\ processed' = Completed(processed, EpochAfter(act))
                  /\ pc' = "idle"
    /\ UNCHANGED <<seen, rendered, transmitted>>
    /\ UNCHANGED winVars

\* term_data_hook: pairadmin_callback(PAIRADMIN_EVENT_OUTPUT, data, len).
\* The call's target is the value the check loaded (one load, kept in a
\* register) or a second load of the slot; a NULL target is a call through
\* a null function pointer, which ends the engine.
term_data_hook_call ==
    /\ pc = "out_call"
    /\ \E target \in {seen, pairadmin_callback} :
          IF target = NULL
             THEN /\ pc' = "crashed"
                  /\ UNCHANGED <<pairadmin_callback, processed, delivered, regHist>>
             ELSE \E ok \in BOOLEAN, act \in PairAdminCallback \cup {-1} :
                  /\ HandlerRuns(target, PAIRADMIN_EVENT_OUTPUT,
                                 processed[cur].data, processed[cur].len, ok, act)
                  /\ processed' = Completed(processed, EpochAfter(act))
                  /\ pc' = "idle"
    /\ UNCHANGED <<seen, rendered, transmitted>>
    /\ UNCHANGED winVars

\* ---------------------------------------------------------------- ldisc.c

\* The input hook placed behind ldisc_send: the bytes are on the channel
\* when the hook is entered.
ldisc_send_site_sendFirst(buf) ==
    /\ pc = "idle"
    /\ cur < MaxEvents
    /\ processed' = Append(processed, NewEvent("input", buf))
    /\ transmitted' = Append(transmitted,
                             [data |-> buf, len |-> Len(buf), idx |-> cur + 1])
    /\ pc' = "in_check"
    /\ UNCHANGED <<pairadmin_callback, seen, rendered, delivered, regHist>>
    /\ UNCHANGED winVars

\* The modified call site: ldisc_send_hook(ldisc, buf, len) is entered
\* first, "return ldisc_send(ldisc, buf, len)" follows it.
ldisc_send_site(buf) ==
    /\ pc = "idle"
    /\ cur < MaxEvents
    /\ processed' = Append(processed, NewEvent("input", buf))
    /\ pc' = "in_check"
    /\ UNCHANGED <<pairadmin_callback, seen, rendered, transmitted, delivered, regHist>>
    /\ UNCHANGED winVars

\* ldisc_send_hook: if (pairadmin_callback)
ldisc_send_hook_check ==
    /\ pc = "in_check"
    /\ seen' = pairadmin_callback
    /\ processed' = Checked(pairadmin_callback)
    /\ pc' = IF pairadmin_callback # NULL THEN "in_call" ELSE "in_send"
    /\ UNCHANGED <<pairadmin_callback, rendered, transmitted, delivered, regHist>>
    /\ UNCHANGED winVars

\* An input hook that gives up on the event when the handler failed.
ldisc_send_hook_call_abortOnFail ==
    /\ pc = "in_call"
    /\ \E target \in {seen, pairadmin_callback} :
          IF target = NULL
             THEN /\ pc' = "crashed"
                  /\ UNCHANGED <<pairadmin_callback, delivered, regHist>>
             ELSE \E ok \in BOOLEAN, act \in PairAdminCallback \cup {-1} :
                  /\ HandlerRuns(target, PAIRADMIN_EVENT_INPUT,
                                 processed[cur].data, processed[cur].len, ok, act)
                  /\ pc' = IF ok THEN "in_send" ELSE "idle"
    /\ UNCHANGED <<seen, processed, rendered, transmitted>>
    /\ UNCHANGED winVars

\* ldisc_send_hook: pairadmin_callback(PAIRADMIN_EVENT_INPUT, buf, len).
ldisc_send_hook_call ==
    /\ pc = "in_call"
    /\ \E target \in {seen, pairadmin_callback} :
          IF target = NULL
             THEN /\ pc' = "crashed"
                  /\ UNCHANGED <<pairadmin_callback, delivered, regHist>>
             ELSE \E ok \in BOOLEAN, act \in PairAdminCallback \cup {-1} :
                  /\ HandlerRuns(target, PAIRADMIN_EVENT_INPUT,
                                 processed[cur].data, processed[cur].len, ok, act)
                  /\ pc' = "in_send"
    /\ UNCHANGED <<seen, processed, rendered, transmitted>>
    /\ UNCHANGED winVars

\* An ldisc_send that lets the notification act as a gate: bytes whose
\* handler reported a failure are dropped.
ldisc_send_gated ==
    /\ pc = "in_send"
    /\ transmitted' =
          IF \E j \in DOMAIN delivered : delivered[j].idx = cur /\ ~delivered[j].ok
             THEN transmitted
             ELSE Append(transmitted, [data |-> processed[cur].data,
                                       len |-> processed[cur].len, idx |-> cur])
    /\ processed' = Completed(processed, epoch)
    /\ pc' = "idle"
    /\ UNCHANGED <<pairadmin_callback, seen, rendered, delivered, regHist>>
    /\ UNCHANGED winVars

\* return ldisc_send(ldisc, buf, len): the bytes go to the SSH channel.
ldisc_send ==
    /\ pc = "in_send"
    /\ transmitted' = Append(transmitted,
                             [data |-> processed[cur].data,
                              len |-> processed[cur].len, idx |-> cur])
    /\ processed' = Completed(processed, epoch)
    /\ pc' = "idle"
    /\ UNCHANGED <<pairadmin_callback, seen, rendered, delivered, regHist>>
    /\ UNCHANGED winVars

\* ------------------------------------------------------ the specification

Next ==
    \/ \E callback \in PairAdminCallback : SetCallback(callback)
    \/ \E data \in Chunks : term_data_site(data)
    \/ term_data_hook_check
    \/ term_data_hook_call
    \/ \E buf \in Chunks : ldisc_send_site(buf)
    \/ ldisc_send_hook_check
    \/ ldisc_send_hook_call
    \/ ldisc_send

Spec == Init /\ [][Next]_vars

\* ------------------------------- builds without -DPAIRADMIN_INTEGRATION

\* Every event so far went through a call site whose hook block was
\* compiled out (terminal_modifications.c / ldisc_modifications.c: the
\* block sits between #ifdef PAIRADMIN_INTEGRATION and #endif).
GuardedBuild == \A i \in DOMAIN processed : processed[i].saw = -1

\* Every event so far went through term_data_hook / ldisc_send_hook as
\* PUTTY_MODIFICATIONS.c adds them: plain functions and plain calls, under
\* no #ifdef, so the macro does not remove them.
UnguardedBuild == \A i \in DOMAIN processed : processed[i].saw # -1

\* terminal.c with the #ifdef block compiled out: term_data and nothing else.
term_data_site_off(data) ==
    /\ pc = "idle"
    /\ cur < MaxEvents
    /\ GuardedBuild
    /\ rendered' = Append(rendered, [data |-> data, len |-> Len(data), idx |-> cur + 1])
    /\ processed' = Append(processed, [NewEvent("output", data) EXCEPT !.ep1 = epoch])
    /\ UNCHANGED <<pairadmin_callback, pc, seen, transmitted, delivered, regHist>>
    /\ UNCHANGED winVars

\* ldisc.c with the #ifdef block compiled out: ldisc_send and nothing else.
ldisc_send_site_off(buf) ==
    /\ pc = "idle"
    /\ cur < MaxEvents
    /\ GuardedBuild
    /\ transmitted' = Append(transmitted, [data |-> buf, len |-> Len(buf), idx |-> cur + 1])
    /\ processed' = Append(processed, [NewEvent("input", buf) EXCEPT !.ep1 = epoch])
    /\ UNCHANGED <<pairadmin_callback, pc, seen, rendered, delivered, regHist>>
    /\ UNCHANGED winVars

\* terminal.c as PUTTY_MODIFICATIONS.c changes it: the call of
\* term_data_hook follows term_data whether or not the macro is defined.
term_data_site_unguarded(data) == UnguardedBuild /\ term_data_site(data)

\* ldisc.c as PUTTY_MODIFICATIONS.c changes it: the call of
\* ldisc_send_hook precedes ldisc_send whether or not the macro is defined.
ldisc_send_site_unguarded(buf) == UnguardedBuild /\ ldisc_send_site(buf)

\* A build without the macro is one of the two: the guarded blocks are
\* gone, or the unguarded hook functions are there as in every build.
NextOff ==
    \/ \E callback \in PairAdminCallback : SetCallback(callback)
    \/ \E data \in Chunks : term_data_site_off(data)
    \/ \E buf \in Chunks : ldisc_send_site_off(buf)
    \/ \E data \in Chunks : term_data_site_unguarded(data)
    \/ \E buf \in Chunks : ldisc_send_site_unguarded(buf)
    \/ term_data_hook_check
    \/ term_data_hook_call
    \/ ldisc_send_hook_check
    \/ ldisc_send_hook_call
    \/ ldisc_send

SpecOff == Init /\ [][NextOff]_vars

\* --------------------------------------------------------------- window.c

\* A stub query that never looks at hwnd_terminal.
putty_get_terminal_hwnd_stub == NULL

\* HWND putty_get_terminal_hwnd(void) { return hwnd_terminal; }
putty_get_terminal_hwnd == hwnd_terminal

\* An engine that builds a new window after it has torn the old one down.
CreateTerminalWindow_recreates(h) ==
    /\ windowState \in {"none", "destroyed"}
    /\ windowState' = "alive"
    /\ windowHandle' = h
    /\ hwnd_terminal' = h
    /\ UNCHANGED <<hwnd, queries, nativeOps>>
    /\ UNCHANGED embVars
    /\ UNCHANGED chanVars

\* The engine creates its terminal window and stores the handle in
\* hwnd_terminal (NULL until then).
CreateTerminalWindow(h) ==
    /\ windowState = "none"
    /\ windowState' = "alive"
    /\ windowHandle' = h
    /\ hwnd_terminal' = h
    /\ UNCHANGED <<hwnd, queries, nativeOps>>
    /\ UNCHANGED embVars
    /\ UNCHANGED chanVars

\* The engine tears its window down.  The bridge adds nothing that clears
\* hwnd_terminal ("Handle may become invalid if PuTTY window is destroyed"),
\* so the variable keeps the dead handle unless the engine's own teardown
\* happens to clear it.
DestroyTerminalWindow(cleared) ==
    /\ windowState = "alive"
    /\ windowState' = "destroyed"
    /\ hwnd_terminal' = IF cleared THEN NULL ELSE hwnd_terminal
    /\ UNCHANGED <<windowHandle, hwnd, queries, nativeOps>>
    /\ UNCHANGED embVars
    /\ UNCHANGED chanVars

\* A query that hands the handle over and forgets it.
QueryHandle_takes ==
    /\ Len(queries) < MaxQueries
    /\ hwnd' = putty_get_terminal_hwnd
    /\ queries' = Append(queries, [phase |-> windowState,
                                   result |-> putty_get_terminal_hwnd])
    /\ hwnd_terminal' = NULL
    /\ UNCHANGED <<windowState, windowHandle, nativeOps>>
    /\ UNCHANGED embVars
    /\ UNCHANGED chanVars

\* The embedding process asks for the handle and keeps the answer.
QueryHandle ==
    /\ Len(queries) < MaxQueries
    /\ hwnd' = putty_get_terminal_hwnd
    /\ queries' = Append(queries, [phase |-> windowState,
                                   result |-> putty_get_terminal_hwnd])
    /\ UNCHANGED <<hwnd_terminal, windowState, windowHandle, nativeOps>>
    /\ UNCHANGED embVars
    /\ UNCHANGED chanVars

\* ------------------------------------------------- the embedding protocol

\* The embedding state of the surface: Destroyed once the engine has torn
\* the window down, Attached while a container holds it, Detached otherwise.
EmbeddingState ==
    IF windowState = "destroyed" THEN "Destroyed"
    ELSE IF hostedBy # {} THEN "Attached"
    ELSE "Detached"

\* The container the surface is attached to.
Parent == CHOOSE c \in hostedBy : TRUE

\* The handle the embedder holds names a window that still exists.
LiveHandle == windowState = "alive" /\ windowHandle = hwnd

\* A reparent that leaves the old container's child link in place.
SetParentEffect_keepsOld(c) ==
    /\ hostedBy' = hostedBy \cup {c}
    /\ UNCHANGED <<surfaceBounds, focus, containerBounds>>

\* Native reparent: the surface becomes the child of c and of c only.
SetParentEffect(c) ==
    /\ hostedBy' = {c}
    /\ UNCHANGED <<surfaceBounds, focus, containerBounds>>

\* A position/size that moves the surface by the container's rectangle
\* instead of to it.
SetWindowPosEffect_relative ==
    /\ surfaceBounds' = IF EmbeddingState = "Attached"
                           THEN surfaceBounds + containerBounds[Parent]
                           ELSE surfaceBounds
    /\ UNCHANGED <<hostedBy, focus, containerBounds>>

\* Native position/size: the embedder aligns the surface with the
\* rectangle of the container it is attached to; without a container
\* there is nothing to align with.
SetWindowPosEffect ==
    /\ surfaceBounds' = IF EmbeddingState = "Attached"
                           THEN containerBounds[Parent] ELSE surfaceBounds
    /\ UNCHANGED <<hostedBy, focus, containerBounds>>

\* A focus transfer that does not look at the embedding state.
SetFocusEffect_anyState ==
    /\ focus' = "surface"
    /\ UNCHANGED <<hostedBy, surfaceBounds, containerBounds>>

\* Focus transfer: gives the keyboard focus to the embedded surface; it
\* takes effect in the Attached state only.
SetFocusEffect ==
    /\ focus' = IF EmbeddingState = "Attached" THEN "surface" ELSE focus
    /\ UNCHANGED <<hostedBy, surfaceBounds, containerBounds>>

\* What a native operation does to a window that exists.
NativeEffect(op, c) ==
    CASE op = "SetParent" -> SetParentEffect(c)
      [] op = "SetWindowPos" -> SetWindowPosEffect
      [] op = "SetFocus" -> SetFocusEffect

\* The embedding process validates its handle (HWND != NULL) and issues
\* SetParent / SetWindowPos / SetFocus on it.  On a handle whose window is
\* gone the operation reaches no surface.
NativeOperation(op) ==
    /\ Len(nativeOps) < MaxOps
    /\ hwnd # NULL
    /\ \E c \in (IF op = "SetParent" THEN Containers ELSE {NoContainer}) :
          /\ nativeOps' = Append(nativeOps,
                                 [op |-> op, handle |-> hwnd, arg |-> c,
                                  live |-> windowState = "alive" /\ windowHandle = hwnd])
          /\ IF LiveHandle THEN NativeEffect(op, c) ELSE UNCHANGED embVars
    /\ UNCHANGED <<hwnd_terminal, windowState, windowHandle, hwnd, queries>>
    /\ UNCHANGED chanVars

\* The embedding application resizes one of its containers.
ContainerResize(c, b) ==
    /\ containerBounds[c] # b
    /\ containerBounds' = [containerBounds EXCEPT ![c] = b]
    /\ UNCHANGED <<hostedBy, surfaceBounds, focus>>
    /\ UNCHANGED <<hwnd_terminal, windowState, windowHandle, hwnd, queries, nativeOps>>
    /\ UNCHANGED chanVars

NextEmbed ==
    \/ \E h \in WindowHandles : CreateTerminalWindow(h)
    \/ \E cleared \in BOOLEAN : DestroyTerminalWindow(cleared)
    \/ QueryHandle
    \/ \E op \in NativeOps : NativeOperation(op)
    \/ \E c \in Containers, b \in ContainerBounds : ContainerResize(c, b)

SpecEmbed == Init /\ [][NextEmbed]_vars

\* ===================================================== checked properties

\* The engine is through with event i.
Finished(i) == i < cur \/ (i = cur /\ pc = "idle")

\* Event i ran from its call site to its end with no set_callback call in
\* between, and with a handler in the slot.
StableEvent(i) ==
    /\ processed[i].ep1 # -1
    /\ processed[i].ep0 = processed[i].ep1
    /\ RegAt(processed[i].ep0) # NULL

\* The notifications delivered for event i.
DeliveriesOf(i) == {j \in DOMAIN delivered : delivered[j].idx = i}

\* What an engine without the bridge queues at one sink for the first n
\* events of evs: the buffers of that point's events, in order.
RECURSIVE RefSink(_, _, _)
RefSink(evs, point, n) ==
    IF n = 0 THEN <<>>
    ELSE IF evs[n].point = point
            THEN Append(RefSink(evs, point, n - 1),
                        [data |-> evs[n].data, len |-> Len(evs[n].data), idx |-> n])
            ELSE RefSink(evs, point, n - 1)

\* C1: every event the engine handles while one handler stays registered
\* is delivered to that handler exactly once, in the engine's order, with
\* kind 1 from the output point and kind 2 from the input point, and with
\* exactly the engine's bytes and length.
C1_ExactlyOnceInOrder ==
    /\ \A j, k \in DOMAIN delivered :
          j < k => delivered[j].idx < delivered[k].idx
    /\ \A i \in DOMAIN processed :
          StableEvent(i) =>
             \E j \in DeliveriesOf(i) :
                /\ delivered[j].h = RegAt(processed[i].ep0)
                /\ delivered[j].kind = (IF processed[i].point = "output" THEN 1 ELSE 2)
                /\ delivered[j].data = processed[i].data
                /\ delivered[j].len = Len(processed[i].data)

\* Two output chunks of the same size were handled under one handler and
\* both were delivered, in the engine's order.
C1_Witness ==
    /\ Len(processed) = 2 /\ pc = "idle"
    /\ \A i \in 1..2 : StableEvent(i) /\ processed[i].ep0 = 1
    /\ processed[1].point = "output" /\ processed[2].point = "output"
    /\ processed[1].data = <<8, 7>> /\ processed[2].data = <<8, 7>>
    /\ Len(delivered) = 2
    /\ delivered[1].idx = 1 /\ delivered[2].idx = 2

\* C2: once pairadmin_set_callback(NULL) has returned, no handler is
\* invoked: at every invocation the most recent returned call is not an
\* unregister.
C2_NoCallAfterUnregister ==
    \A j \in DOMAIN delivered : RegAt(delivered[j].ep) # NULL

\* C3: when input bytes are on the transmission sink and the hook found a
\* handler for them, the INPUT notification with those bytes has already
\* been delivered.
C3_NotifiedBeforeSent ==
    \A t \in DOMAIN transmitted :
       processed[transmitted[t].idx].saw \in Handlers =>
          \E j \in DeliveriesOf(transmitted[t].idx) :
             /\ delivered[j].kind = PAIRADMIN_EVENT_INPUT
             /\ delivered[j].data = transmitted[t].data
             /\ delivered[j].len = transmitted[t].len

\* An input chunk with a handler registered has reached the sink.
C3_Witness ==
    \E t \in DOMAIN transmitted :
       /\ processed[transmitted[t].idx].saw \in Handlers
       /\ transmitted[t].data = <<8, 7>>

NullNotification ==
    /\ pairadmin_callback = NULL
    /\ pc \in {"out_check", "in_check"}
    /\ pc' # pc

\* C5: the slot is NULL at process start, and a notification made while
\* the slot is NULL invokes no handler and leaves the rendered output, the
\* transmitted input and the slot as they are; the engine goes on as it
\* would without the hook (output: done, input: on to ldisc_send).
C5_NullSlotIsNoop ==
    /\ pairadmin_callback = NULL
    /\ [][NullNotification =>
            /\ delivered' = delivered
            /\ rendered' = rendered
            /\ transmitted' = transmitted
            /\ pairadmin_callback' = NULL
            /\ pc' = (IF pc = "out_check" THEN "idle" ELSE "in_send")]_vars

\* An output and an input event went through with no handler installed:
\* both reached their sinks and nothing was delivered.
C5_Witness ==
    /\ Len(processed) = 2 /\ pc = "idle"
    /\ processed[1].saw = NULL /\ processed[2].saw = NULL
    /\ processed[1].point = "output" /\ processed[2].point = "input"
    /\ Len(rendered) = 1 /\ Len(transmitted) = 1
    /\ delivered = <<>>

\* C6: a hook that runs after the set_callback calls made so far reads
\* the argument of the most recent one; it notifies that handler and no
\* replaced one, and notifies nobody if the most recent call cleared the
\* slot.
C6_MostRecentHandlerOnly ==
    /\ \A j \in DOMAIN delivered :
          delivered[j].ckEp = delivered[j].ep =>
             /\ delivered[j].h = RegAt(delivered[j].ep)
             /\ delivered[j].h \in Handlers
    /\ \A i \in DOMAIN processed :
          processed[i].saw # -1 =>
             /\ processed[i].saw = RegAt(processed[i].ckEp)
             /\ processed[i].saw = NULL => DeliveriesOf(i) = {}

\* Handler 1 was notified, handler 2 replaced it, and the next event went
\* to handler 2.
C6_Witness ==
    /\ regHist = <<1, 2>>
    /\ Len(delivered) = 2
    /\ delivered[1].h = 1 /\ delivered[1].ep = 1
    /\ delivered[2].h = 2 /\ delivered[2].ep = 2 /\ delivered[2].ckEp = 2

\* C7: an OUTPUT notification is delivered only for a chunk term_data has
\* already queued for rendering, with the same bytes and length.
C7_OutputAfterTermData ==
    \A j \in DOMAIN delivered :
       delivered[j].kind = PAIRADMIN_EVENT_OUTPUT =>
          \E r \in DOMAIN rendered :
             /\ rendered[r].idx = delivered[j].idx
             /\ rendered[r].data = delivered[j].data
             /\ rendered[r].len = delivered[j].len

\* An OUTPUT notification has been delivered.
C7_Witness ==
    \E j \in DOMAIN delivered :
       delivered[j].kind = PAIRADMIN_EVENT_OUTPUT /\ delivered[j].data = <<8, 7>>

\* C8: what the engine has rendered and transmitted is what an engine
\* without the bridge renders and transmits for the same events: all of
\* them when the engine is between events, all but possibly the one in
\* progress otherwise; no handler, handler result or handler action
\* changes it.
C8_ObservationOnly ==
    /\ \E n \in {m \in {cur - 1, cur} : m >= 0} :
          rendered = RefSink(processed, "output", n)
    /\ \E n \in {m \in {cur - 1, cur} : m >= 0} :
          transmitted = RefSink(processed, "input", n)
    /\ pc = "idle" =>
          /\ rendered = RefSink(processed, "output", cur)
          /\ transmitted = RefSink(processed, "input", cur)

\* The engine is between events after an input event whose handler
\* failed and an output event that was notified too.
C8_Witness ==
    /\ pc = "idle" /\ Len(processed) >= 2
    /\ \E j, k \in DOMAIN delivered :
          /\ delivered[j].kind = PAIRADMIN_EVENT_INPUT /\ ~delivered[j].ok
          /\ delivered[k].kind = PAIRADMIN_EVENT_OUTPUT
    /\ Len(transmitted) >= 1 /\ Len(rendered) >= 1

\* C9 as stated: the query returns NULL before the window is created, the
\* window's handle while it exists, and NULL after it has been destroyed.
C9_NullAfterDestroy ==
    \A q \in DOMAIN queries :
       /\ queries[q].phase = "none" => queries[q].result = NULL
       /\ queries[q].phase = "alive" =>
             queries[q].result = windowHandle /\ queries[q].result # NULL
       /\ queries[q].phase = "destroyed" => queries[q].result = NULL

\* C9 amended: the query returns NULL before the window is created and
\* the same non-null handle on every query while the window exists; after
\* destruction it returns what hwnd_terminal still holds, which is the
\* dead handle unless the engine's teardown cleared the variable.
C9_QueryReturnsStoredHandle ==
    /\ \A q \in DOMAIN queries :
          /\ queries[q].phase = "none" => queries[q].result = NULL
          /\ queries[q].phase = "alive" =>
                queries[q].result = windowHandle /\ queries[q].result # NULL
          /\ queries[q].phase = "destroyed" =>
                queries[q].result \in {NULL, windowHandle}
    /\ \A q, r \in DOMAIN queries :
          queries[q].phase = "alive" /\ queries[r].phase = "alive" =>
             queries[q].result = queries[r].result
    /\ (queries # <<>> /\ queries[Len(queries)].phase = windowState) =>
          queries[Len(queries)].result = hwnd_terminal

\* The handle was queried before creation, twice while the window existed
\* and, with hwnd_terminal not cleared, the dead handle is still stored.
C9_Witness ==
    /\ Len(queries) = 3
    /\ queries[1].phase = "none"
    /\ queries[2].phase = "alive" /\ queries[3].phase = "alive"
    /\ windowState = "destroyed" /\ hwnd_terminal = windowHandle

\* C10: no native operation is issued against a handle whose window has
\* already been destroyed.
C10_NoOperationOnDeadHandle ==
    \A o \in DOMAIN nativeOps : nativeOps[o].live

\* C16: a hook never calls through a NULL slot, and the function it
\* invokes is the value its check found in the slot.
C16_CallsWhatItChecked ==
    /\ pc # "crashed"
    /\ \A j \in DOMAIN delivered :
          /\ delivered[j].h # NULL
          /\ delivered[j].h = processed[delivered[j].idx].saw

\* C17: when the handler itself calls pairadmin_set_callback(x) inside a
\* notification, the event is still delivered exactly once, to the
\* handler the hook found installed; the next engine event, if nothing
\* else touches the slot before its hook, finds x: it is delivered to x,
\* or to nobody if x is NULL.
C17_ReentrantSetCallback ==
    \A j \in DOMAIN delivered :
       delivered[j].act # -1 =>
          LET i == delivered[j].idx
              e == delivered[j].ep
          IN  /\ Cardinality(DeliveriesOf(i)) = 1
              /\ delivered[j].ckEp = e =>
                    /\ delivered[j].h = processed[i].saw
                    /\ delivered[j].h = RegAt(e)
              /\ RegAt(e + 1) = delivered[j].act
              /\ (i + 1 \in DOMAIN processed /\ processed[i + 1].ckEp = e + 1) =>
                    /\ processed[i + 1].saw = delivered[j].act
                    /\ delivered[j].act = NULL => DeliveriesOf(i + 1) = {}
                    /\ \A k \in DeliveriesOf(i + 1) :
                          delivered[k].ep = e + 1 => delivered[k].h = delivered[j].act
                    /\ (delivered[j].act # NULL /\ Finished(i + 1)
                          /\ processed[i + 1].ep1 = e + 1) =>
                          DeliveriesOf(i + 1) # {}

\* Handler 1 replaced itself by handler 2 while being notified of the
\* first event, and the second event went to handler 2.
C17_Witness ==
    /\ Len(delivered) = 2
    /\ delivered[1].h = 1 /\ delivered[1].act = 2 /\ delivered[1].idx = 1
    /\ delivered[2].h = 2 /\ delivered[2].idx = 2
    /\ regHist = <<1, 2>>

\* C15: in a build without PAIRADMIN_INTEGRATION no handler is ever
\* invoked, registered or not, and between events the engine has rendered
\* and transmitted exactly what the unmodified engine would have.
C15_DisabledBuildIsBaseline ==
    /\ delivered = <<>>
    /\ pc = "idle" =>
          /\ rendered = RefSink(processed, "output", cur)
          /\ transmitted = RefSink(processed, "input", cur)

\* The step issues the native operation op.
Issues(op) ==
    /\ Len(nativeOps') = Len(nativeOps) + 1
    /\ nativeOps'[Len(nativeOps')].op = op

\* The live reparent operations issued so far.
LiveReparents ==
    {k \in DOMAIN nativeOps : nativeOps[k].op = "SetParent" /\ nativeOps[k].live}

C12_FocusOnlyWhenAttached ==
    [][Issues("SetFocus") =>
          /\ EmbeddingState = "Attached" => focus' = "surface"
          /\ EmbeddingState # "Attached" => focus' = focus
          /\ EmbeddingState' = EmbeddingState
          /\ hostedBy' = hostedBy
          /\ surfaceBounds' = surfaceBounds
          /\ (EmbeddingState = "Attached" /\ focus = "surface") =>
                UNCHANGED embVars]_vars

\* The focus was requested in Detached (no effect), then the surface was
\* attached and the focus was transferred.
C12_Witness ==
    /\ Len(nativeOps) = 3
    /\ nativeOps[1].op = "SetFocus" /\ nativeOps[1].live
    /\ nativeOps[2].op = "SetParent" /\ nativeOps[2].live
    /\ nativeOps[3].op = "SetFocus" /\ nativeOps[3].live
    /\ focus = "surface"
    /\ EmbeddingState = "Attached"

\* C13: at most one container holds the surface; while the window exists
\* that container is the target of the latest reparent, no earlier one
\* keeps a link, and a position/size operation gives the surface that
\* container's rectangle.
C13_SingleParent ==
    /\ [](/\ Cardinality(hostedBy) <= 1
          /\ LiveReparents # {} =>
                hostedBy = {nativeOps[CHOOSE k \in LiveReparents :
                                         \A m \in LiveReparents : m <= k].arg})
    /\ [][(Issues("SetWindowPos") /\ EmbeddingState = "Attached") =>
             \A c \in Containers :
                nativeOps[CHOOSE k \in LiveReparents :
                             \A m \in LiveReparents : m <= k].arg = c =>
                   surfaceBounds' = containerBounds[c]]_vars

\* Attached to A, reparented to B, then positioned: the surface has B's
\* rectangle, which differs from A's, and A holds nothing.
C13_Witness ==
    /\ Len(nativeOps) = 3
    /\ nativeOps[1].op = "SetParent" /\ nativeOps[1].arg = "A" /\ nativeOps[1].live
    /\ nativeOps[2].op = "SetParent" /\ nativeOps[2].arg = "B" /\ nativeOps[2].live
    /\ nativeOps[3].op = "SetWindowPos" /\ nativeOps[3].live
    /\ hostedBy = {"B"}
    /\ containerBounds["A"] = 1 /\ containerBounds["B"] = 2
    /\ surfaceBounds = 2

\* C14: in the Attached state a position/size operation leaves the
\* surface with its container's current rectangle and changes nothing
\* else; applied to a surface that already has that rectangle it changes
\* nothing at all, so twice is the same as once.
C14_PositionSizeIdempotent ==
    [][(Issues("SetWindowPos") /\ EmbeddingState = "Attached") =>
          /\ surfaceBounds' = containerBounds[Parent]
          /\ EmbeddingState' = "Attached"
          /\ UNCHANGED <<hostedBy, focus, containerBounds>>
          /\ surfaceBounds = containerBounds[Parent] => UNCHANGED embVars]_vars

\* The container was resized, and the position/size operation was applied
\* twice in a row: the surface has the container's new rectangle.
C14_Witness ==
    /\ Len(nativeOps) = 3
    /\ nativeOps[1].op = "SetParent" /\ nativeOps[1].live
    /\ nativeOps[2].op = "SetWindowPos" /\ nativeOps[2].live
    /\ nativeOps[3].op = "SetWindowPos" /\ nativeOps[3].live
    /\ EmbeddingState = "Attached"
    /\ containerBounds[Parent] = 2
    /\ surfaceBounds = 2

\* --------------------------------------------------- the bridge as a whole

\* A step of the callback channel within the bounds of a whole-bridge run.
ChannelStep ==
    /\ Next
    /\ Len(processed') <= MaxFrameEvents
    /\ Len(regHist') <= MaxFrameSets

\* The engine thread (data path, window creation and teardown) and the
\* embedding process (registration, handle query) side by side.
NextFrame ==
    \/ ChannelStep
    \/ \E h \in WindowHandles : CreateTerminalWindow(h)
    \/ \E cleared \in BOOLEAN : DestroyTerminalWindow(cleared)
    \/ QueryHandle

SpecFrame == Init /\ [][NextFrame]_vars

\* The step is a hook's call of the handler.
HookCallStep == pc \in {"out_call", "in_call"} /\ pc' # pc

\* C18: a handler is invoked only by a hook's call; a set_callback made
\* outside a handler and a handle query invoke nothing; the query leaves
\* hwnd_terminal and the slot as they are; the slot changes only by a
\* pairadmin_set_callback call, which a hook's own code never makes (in a
\* hook step the slot changes only if the handler made that call).
C18_FrameEffects ==
    [][/\ delivered' # delivered =>
             /\ HookCallStep
             /\ Len(delivered') = Len(delivered) + 1
       /\ (regHist' # regHist /\ ~HookCallStep) => delivered' = delivered
       /\ queries' # queries =>
             /\ delivered' = delivered
             /\ hwnd_terminal' = hwnd_terminal
             /\ pairadmin_callback' = pairadmin_callback
             /\ regHist' = regHist
       /\ pairadmin_callback' # pairadmin_callback =>
             regHist' = Append(regHist, pairadmin_callback')
       /\ (pc' # pc /\ pairadmin_callback' # pairadmin_callback) =>
             /\ HookCallStep
             /\ delivered' # delivered
             /\ delivered'[Len(delivered')].act = pairadmin_callback']_vars

\* A handler has been registered and notified, and the handle of the
\* existing window has been queried, with the slot and hwnd_terminal
\* still set.
C18_Witness ==
    /\ Len(delivered) = 1
    /\ regHist = <<1>> /\ pairadmin_callback = 1
    /\ queries # <<>> /\ queries[Len(queries)].result # NULL
    /\ hwnd_terminal = windowHandle /\ windowState = "alive"

====
